---------------------------- MODULE Spec2Model ----------------------------
(***************************************************************************)
(* A model of scrapefide.py: the rating-period URL generator               *)
(* (get_rating_urls), the performance calculation (calc_performance over   *)
(* PERFORMANCE_TABLE), and the scraping pipeline (main,                    *)
(* scrape_rating_reports, write_to_csv).                                   *)
(*                                                                         *)
(* Numbers that the program holds as floats with two decimals (points,     *)
(* score ratio, rating change) are held here as integers in hundredths:    *)
(* 4.5 points is 450, the table key 0.78 is 78.                            *)
(***************************************************************************)
EXTENDS Integers, Sequences, FiniteSets, TLC

VARIABLES
    pc,           \* position of main / scrape_rating_reports
    now,          \* time.localtime() at the call: <<tm_year, tm_mon>>
    tz,           \* the process's time zone (TZ), read by mktime/localtime
    args,         \* parsed command line: [id, months]
    urls,         \* result of get_rating_urls
    urlsAgain,    \* result of a second call of get_rating_urls
    u,            \* index in urls of the url the for loop is at
    session,      \* identity of the requests.Session in s
    login,        \* status of the response held in login
    resp,         \* the response held in resp: [status, doc]
    i,            \* index of the row pair the inner for loop is at
    tournaments,  \* the accumulator list
    csvFile,      \* rows written to '<id>.csv', or NotWritten
    error,        \* the exception that ended the run, or "none"
    log,          \* calls made to the outside: post, get, sleep
    perfIn,       \* arguments of a direct call of calc_performance
    perfOut       \* its result

vars == <<pc, now, tz, args, urls, urlsAgain, u, session, login, resp, i,
          tournaments, csvFile, error, log, perfIn, perfOut>>

-----------------------------------------------------------------------------
(* Bounds *)
MaxMonths == 2       \* largest --months of a pipeline run
MaxRows == 2         \* largest number of header rows / score rows in a page
MaxEnumMonths == 4   \* largest months argument of a direct get_rating_urls call
MaxRds == 11         \* largest rds of a direct calc_performance call

-----------------------------------------------------------------------------
(* Constants of the program *)
\* Keys are the dictionary keys times 100: PERFORMANCE_TABLE[0.78] is
\* PERFORMANCE_TABLE[78] here.
PERFORMANCE_TABLE ==
    100 :> 800 @@ 99 :> 677 @@ 98 :> 589 @@ 97 :> 538 @@ 96 :> 501 @@ 95 :> 470 @@
    94 :> 444 @@ 93 :> 422 @@ 92 :> 401 @@ 91 :> 383 @@ 90 :> 366 @@ 89 :> 351 @@
    88 :> 336 @@ 87 :> 322 @@ 86 :> 309 @@ 85 :> 296 @@ 84 :> 284 @@ 83 :> 273 @@
    82 :> 262 @@ 81 :> 251 @@ 80 :> 240 @@ 79 :> 230 @@ 78 :> 220 @@ 77 :> 211 @@
    76 :> 202 @@ 75 :> 193 @@ 74 :> 184 @@ 73 :> 175 @@ 72 :> 166 @@ 71 :> 158 @@
    70 :> 149 @@ 69 :> 141 @@ 68 :> 133 @@ 67 :> 125 @@ 66 :> 117 @@ 65 :> 110 @@
    64 :> 102 @@ 63 :> 95 @@ 62 :> 87 @@ 61 :> 80 @@ 60 :> 72 @@ 59 :> 65 @@
    58 :> 57 @@ 57 :> 50 @@ 56 :> 43 @@ 55 :> 36 @@ 54 :> 29 @@ 53 :> 21 @@
    52 :> 14 @@ 51 :> 7 @@ 50 :> 0 @@ 49 :> (-7) @@ 48 :> (-14) @@ 47 :> (-21) @@
    46 :> (-29) @@ 45 :> (-36) @@ 44 :> (-43) @@ 43 :> (-50) @@ 42 :> (-57) @@ 41 :> (-65) @@
    40 :> (-72) @@ 39 :> (-80) @@ 38 :> (-87) @@ 37 :> (-95) @@ 36 :> (-102) @@ 35 :> (-110) @@
    34 :> (-117) @@ 33 :> (-125) @@ 32 :> (-133) @@ 31 :> (-141) @@ 30 :> (-149) @@ 29 :> (-158) @@
    28 :> (-166) @@ 27 :> (-175) @@ 26 :> (-184) @@ 25 :> (-193) @@ 24 :> (-202) @@ 23 :> (-211) @@
    22 :> (-220) @@ 21 :> (-230) @@ 20 :> (-240) @@ 19 :> (-251) @@ 18 :> (-262) @@ 17 :> (-273) @@
    16 :> (-284) @@ 15 :> (-296) @@ 14 :> (-309) @@ 13 :> (-322) @@ 12 :> (-336) @@ 11 :> (-351) @@
    10 :> (-366) @@ 9 :> (-383) @@ 8 :> (-401) @@ 7 :> (-422) @@ 6 :> (-444) @@ 5 :> (-470) @@
    4 :> (-501) @@ 3 :> (-538) @@ 2 :> (-589) @@ 1 :> (-677) @@ 0 :> (-800)
TRN_HEADER_CELLS == 4   \* names unpacked from a header row
TRN_SCORE_CELLS == 8    \* names unpacked from a score row

NO_RECORDS_STRING == "No records found in individual calculations for this period."

LOGIN_URL == [path |-> "login_action.php", idnumber |-> "", year |-> 0, month |-> 0]

CALCULATION_URL(id, year, month) ==
    [path |-> "individual_calculations.phtml", idnumber |-> id,
     year |-> year, month |-> month]

NoUrl == [path |-> "", idnumber |-> "", year |-> 0, month |-> 0]

NotWritten == <<"no file">>

-----------------------------------------------------------------------------
(* time.mktime and time.localtime, as far as get_rating_urls uses them.    *)
(* An instant is [month, hour]: month counts calendar months (year*12 +    *)
(* month-1) and hour the hours since the start of that month, both in the  *)
(* zone's standard time.                                                   *)

TimeZones == {"UTC", "Europe/Berlin", "Europe/Dublin"}

\* Hours the zone's clock is ahead of its standard time on the first of
\* month m. Europe/Dublin has standard time in summer and a negative
\* saving in winter.
Save(zone, m) ==
    CASE zone = "Europe/Berlin" -> IF m \in 4..10 THEN 1 ELSE 0
      [] zone = "Europe/Dublin" -> IF m \in 4..10 THEN 0 ELSE -1
      [] OTHER -> 0

\* t is the 9-tuple <<year, mon, mday, hour, min, sec, wday, yday, isdst>>;
\* mon may be out of 1..12 and is normalised. isdst = 0 makes mktime read
\* the tuple as standard time, isdst = 1 as the saving time of that month.
mktime(t, zone) ==
    LET m == t[1] * 12 + (t[2] - 1)
        h == (t[3] - 1) * 24 + t[4]
    IN  [month |-> m,
         hour  |-> IF t[9] = 0 THEN h ELSE h - Save(zone, (m % 12) + 1)]

\* The first two fields, <<tm_year, tm_mon>>, of the zone's clock reading.
localtime(ts, zone) ==
    LET wall == ts.hour + Save(zone, (ts.month % 12) + 1)
        m    == IF wall < 0 THEN ts.month - 1 ELSE ts.month
    IN  <<m \div 12, (m % 12) + 1>>

get_rating_urls(player_id, months, tnow, zone) ==
    LET periods == [k \in 1..months |->
                      localtime(mktime(<<tnow[1], tnow[2] - (k - 1), 1,
                                         0, 0, 0, 0, 0, 0>>, zone), zone)]
    IN  [k \in 1..months |->
            CALCULATION_URL(player_id, periods[k][1], periods[k][2])]

-----------------------------------------------------------------------------
(* calc_performance *)

\* round(pts / rds, 2) in hundredths, for rds # 0: the nearest hundredth,
\* an exact tie going to the even one.
RoundTrunc(pts, rds) ==
    LET num == IF rds > 0 THEN pts ELSE -pts
        den == IF rds > 0 THEN rds ELSE -rds
    IN  num \div den

Round2(pts, rds) ==
    LET num == IF rds > 0 THEN pts ELSE -pts
        den == IF rds > 0 THEN rds ELSE -rds
        q   == num \div den
        r   == num - q * den
    IN  IF 2 * r < den THEN q
        ELSE IF 2 * r > den THEN q + 1
        ELSE IF q % 2 = 0 THEN q ELSE q + 1

\* [err, perf]: err names the exception raised, "none" when perf is returned.
calc_performance(avg, pts, rds) ==
    IF rds = 0 THEN [err |-> "ZeroDivisionError", perf |-> 0]
    ELSE LET score == Round2(pts, rds)
         IN  IF score \in DOMAIN PERFORMANCE_TABLE
             THEN [err |-> "none", perf |-> avg + PERFORMANCE_TABLE[score]]
             ELSE [err |-> "KeyError", perf |-> 0]

-----------------------------------------------------------------------------
(* Pages the server can answer with *)

HttpStatus == {200, 500}

\* Rows with bgcolor TRN_NAME_COLOR, as the texts of their children.
HdrA == <<"Open A", "Riga", "LAT", "2024-01-05">>
HdrB == <<"Open B", "Oslo", "NOR", "2024-01-19">>
HdrShort == <<"Open C", "Baku", "AZE">>
HeaderRows == {HdrA, HdrB, HdrShort}

\* Rows with bgcolor TRN_SCORE_COLOR: <<opp_avg, ply_rtg, pts, rds, chg,
\* kFactor, rating_change, _>>, the numbers their texts denote (pts and
\* rating_change in hundredths).
ScoreGood == <<2000, 2150, 700, 9, 62, 20, 1240, 0>>
ScoreHalf == <<2200, 2150, 450, 9, 0, 20, -350, 0>>
ScoreOver == <<2200, 2150, 401, 4, 30, 20, 600, 0>>
ScoreNegRds == <<2100, 2150, -100, -2, 0, 20, 0, 0>>
ScoreZeroRds == <<2100, 2150, 0, 0, 0, 20, 0, 0>>
ScoreKeyMiss == <<2100, 2150, 500, 4, 0, 20, 0, 0>>
ScoreShort == <<2000, 2150, 700, 9, 62, 20, 1240>>
ScoreRows == {ScoreGood, ScoreShort}
PageScoreRows ==
    ScoreRows \cup {ScoreHalf, ScoreOver, ScoreNegRds, ScoreZeroRds,
                    ScoreKeyMiss}

SeqsUpTo(S, n) == UNION {[1..k -> S] : k \in 0..n}

\* The label in the first table is the period the url asks for.
PeriodLabel(url) == <<url.year, url.month>>

EmptyDoc ==
    [ntables |-> 0, period |-> <<0, 0>>, records |-> "",
     trn_headers |-> <<>>, trn_scores |-> <<>>]

\* ntables: the number of tables of class contentpaneopen; records: the text
\* of the second one when it is the no-records notice.
Documents(url, scoreRows) ==
    {[EmptyDoc EXCEPT !.ntables = n] : n \in 0..1}
    \cup {[ntables |-> 2, period |-> PeriodLabel(url),
           records |-> NO_RECORDS_STRING,
           trn_headers |-> <<>>, trn_scores |-> <<>>]}
    \cup {[ntables |-> 2, period |-> PeriodLabel(url), records |-> "",
           trn_headers |-> h, trn_scores |-> s] :
             h \in SeqsUpTo(HeaderRows, MaxRows),
             s \in SeqsUpTo(scoreRows, MaxRows)}

-----------------------------------------------------------------------------
(* scrape_rating_reports *)

NewSessionReused(s) == IF s = 0 THEN 1 ELSE s

\* requests.Session(): an object distinct from every earlier one.
NewSession(s) == s + 1

RaiseCaught(e) == pc' = "write" /\ error' = e

\* An exception nobody catches: main ends, write_to_csv is not reached.
Raise(e) == pc' = "error" /\ error' = e

ParseOutcomeNoticeRaises(doc) ==
    IF doc.ntables < 2 \/ doc.records = NO_RECORDS_STRING THEN "IndexError"
    ELSE IF Len(doc.trn_headers) # Len(doc.trn_scores) THEN "TypeError"
    ELSE "rows"

\* Lines 113-132: what the code does with the page before the row loop.
\* The raise statement divides two strings, which raises TypeError before
\* RuntimeError is constructed.
ParseOutcome(doc) ==
    IF doc.ntables < 2 THEN "IndexError"
    ELSE IF doc.records = NO_RECORDS_STRING THEN "continue"
    ELSE IF Len(doc.trn_headers) # Len(doc.trn_scores) THEN "TypeError"
    ELSE "rows"

NoTournament ==
    [RatingPeriod |-> <<0, 0>>, TournamentName |-> "", City |-> "",
     Country |-> "", Pts |-> 0, Rds |-> 0, AvgOpponents |-> 0,
     RtgChange |-> 0, Performance |-> 0]

\* Lines 135-151: one pass of the row loop, [err, rec].
RowOutcome(period, hdr, sc) ==
    IF Len(hdr) # TRN_HEADER_CELLS \/ Len(sc) # TRN_SCORE_CELLS
    THEN [err |-> "ValueError", rec |-> NoTournament]
    ELSE LET performance == calc_performance(sc[1], sc[3], sc[4])
         IN  [err |-> performance.err,
              rec |-> [RatingPeriod |-> period, TournamentName |-> hdr[1],
                       City |-> hdr[2], Country |-> hdr[3],
                       Pts |-> sc[3], Rds |-> sc[4], AvgOpponents |-> sc[1],
                       RtgChange |-> sc[7],
                       Performance |-> performance.perf]]

PrependTournament(ts, rec) == <<rec>> \o ts

\* tournaments.append(new_tourn)
AppendTournament(ts, rec) == Append(ts, rec)

\* The for loop over urls moves on, or ends and main goes on to write.
NextUrl ==
    /\ u' = u + 1
    /\ pc' = IF u < Len(urls) THEN "login" ELSE "write"

csv_fields ==
    <<"Rating Period", "Tournament Name", "City", "Country", "Pts.", "Rds.",
      "Avg. Opponents", "Rtg. Change", "Performance">>

\* One row of the file, in the order of csv_fields.
CsvRow(trn) ==
    <<trn.RatingPeriod, trn.TournamentName, trn.City, trn.Country, trn.Pts,
      trn.Rds, trn.AvgOpponents, trn.RtgChange, trn.Performance>>

write_to_csv(trns) == [header |-> csv_fields,
                       rows |-> [k \in 1..Len(trns) |-> CsvRow(trns[k])]]

\* main up to the call of scrape_rating_reports.
Main ==
    /\ pc = "start"
    /\ urls' = get_rating_urls(args.id, args.months, now, tz)
    /\ tournaments' = <<>>
    /\ u' = 1
    /\ pc' = IF args.months >= 1 THEN "login" ELSE "write"
    /\ UNCHANGED <<now, tz, args, urlsAgain, session, login, resp, i, csvFile,
                   error, log, perfIn, perfOut>>

\* Lines 106-109: a new session and the login request on it.
Login ==
    /\ pc = "login"
    /\ session' = NewSession(session)
    /\ log' = Append(log, [kind |-> "post", session |-> session',
                           url |-> LOGIN_URL])
    /\ \/ Raise("ConnectionError") /\ UNCHANGED login
       \/ \E st \in HttpStatus :
            login' = st /\ pc' = "get" /\ UNCHANGED error
    /\ UNCHANGED <<now, tz, args, urls, urlsAgain, u, resp, i, tournaments,
                   csvFile, perfIn, perfOut>>

\* Lines 110-111: the report request on the same session.
Get ==
    /\ pc = "get"
    /\ log' = Append(log, [kind |-> "get", session |-> session,
                           url |-> urls[u]])
    /\ \/ Raise("ConnectionError") /\ UNCHANGED resp
       \/ \E st \in HttpStatus, doc \in Documents(urls[u], ScoreRows) :
            /\ resp' = [status |-> st, doc |-> doc]
            /\ pc' = "parse"
            /\ UNCHANGED error
    /\ UNCHANGED <<now, tz, args, urls, urlsAgain, u, session, login, i,
                   tournaments, csvFile, perfIn, perfOut>>

\* Lines 112-134: the page up to the row loop.
ParseDoc ==
    /\ pc = "parse"
    /\ LET outcome == ParseOutcome(resp.doc)
       IN  CASE outcome = "continue" ->
                  NextUrl /\ UNCHANGED <<i, error>>
             [] outcome = "rows" ->
                  /\ i' = 1
                  /\ pc' = IF Len(resp.doc.trn_headers) = 0
                           THEN "sleep" ELSE "rows"
                  /\ UNCHANGED <<u, error>>
             [] OTHER -> Raise(outcome) /\ UNCHANGED <<u, i>>
    /\ UNCHANGED <<now, tz, args, urls, urlsAgain, session, login, resp,
                   tournaments, csvFile, log, perfIn, perfOut>>

\* Lines 135-152: one row pair.
ParseRow ==
    /\ pc = "rows"
    /\ LET r == RowOutcome(resp.doc.period, resp.doc.trn_headers[i],
                           resp.doc.trn_scores[i])
       IN  IF r.err # "none"
           THEN Raise(r.err) /\ UNCHANGED <<i, tournaments>>
           ELSE /\ tournaments' = AppendTournament(tournaments, r.rec)
                /\ i' = i + 1
                /\ pc' = IF i < Len(resp.doc.trn_headers)
                         THEN "rows" ELSE "sleep"
                /\ UNCHANGED error
    /\ UNCHANGED <<now, tz, args, urls, urlsAgain, u, session, login, resp,
                   csvFile, log, perfIn, perfOut>>

\* Line 154, and the loop moving on.
Sleep ==
    /\ pc = "sleep"
    /\ log' = Append(log, [kind |-> "sleep", session |-> 0, url |-> NoUrl])
    /\ NextUrl
    /\ UNCHANGED <<now, tz, args, urls, urlsAgain, session, login, resp, i,
                   tournaments, csvFile, error, perfIn, perfOut>>

\* Line 156 and main's call of write_to_csv.
WriteCsv ==
    /\ pc = "write"
    /\ csvFile' = write_to_csv(tournaments)
    /\ pc' = "done"
    /\ UNCHANGED <<now, tz, args, urls, urlsAgain, u, session, login, resp, i,
                   tournaments, error, log, perfIn, perfOut>>

-----------------------------------------------------------------------------
(* The pipeline run *)

PlayerIds == {"2805677"}
\* The clock and zone of a run: a January, where the periods cross into the
\* year before, and a Dublin November, where get_rating_urls names October
\* twice.
PipelineClocks == {<<"UTC", <<2024, 1>>>>, <<"Europe/Dublin", <<2024, 11>>>>}

Idle ==
    /\ urls = <<>> /\ urlsAgain = <<>> /\ u = 0 /\ session = 0 /\ login = 0
    /\ resp = [status |-> 0, doc |-> EmptyDoc] /\ i = 0
    /\ tournaments = <<>> /\ csvFile = NotWritten /\ error = "none"
    /\ log = <<>>
    /\ perfOut = [err |-> "none", perf |-> 0]

Init ==
    /\ pc = "start"
    /\ \E c \in PipelineClocks : tz = c[1] /\ now = c[2]
    /\ args \in [id : PlayerIds, months : 1..MaxMonths]
    /\ perfIn = <<0, 0, 1>>
    /\ Idle

Next == Main \/ Login \/ Get \/ ParseDoc \/ ParseRow \/ Sleep \/ WriteCsv

Spec == Init /\ [][Next]_vars

-----------------------------------------------------------------------------
(* One page with any of the rows of PageScoreRows, from the point where    *)
(* the report request of a one-month run has been answered.                *)

InitPage ==
    /\ pc = "parse"
    /\ now = <<2024, 1>>
    /\ tz = "UTC"
    /\ args \in [id : PlayerIds, months : {1}]
    /\ urls = get_rating_urls(args.id, args.months, now, tz)
    /\ urlsAgain = <<>>
    /\ u = 1
    /\ session = NewSession(0)
    /\ login = 200
    /\ \E doc \in Documents(urls[1], PageScoreRows) :
          resp = [status |-> 200, doc |-> doc]
    /\ i = 0
    /\ tournaments = <<>> /\ csvFile = NotWritten /\ error = "none"
    /\ log = <<[kind |-> "post", session |-> session, url |-> LOGIN_URL],
               [kind |-> "get", session |-> session, url |-> urls[1]]>>
    /\ perfIn = <<0, 0, 1>>
    /\ perfOut = [err |-> "none", perf |-> 0]

NextPage == ParseDoc \/ ParseRow \/ Sleep \/ WriteCsv

SpecPage == InitPage /\ [][NextPage]_vars

-----------------------------------------------------------------------------
(* Direct calls of get_rating_urls, twice with the same clock *)

EnumNows == {<<2024, m>> : m \in 1..12}

GetRatingUrls ==
    /\ pc = "urls"
    /\ urls' = get_rating_urls(args.id, args.months, now, tz)
    /\ pc' = "urls again"
    /\ UNCHANGED <<now, tz, args, urlsAgain, u, session, login, resp, i,
                   tournaments, csvFile, error, log, perfIn, perfOut>>

GetRatingUrlsAgain ==
    /\ pc = "urls again"
    /\ urlsAgain' = get_rating_urls(args.id, args.months, now, tz)
    /\ pc' = "done"
    /\ UNCHANGED <<now, tz, args, urls, u, session, login, resp, i,
                   tournaments, csvFile, error, log, perfIn, perfOut>>

InitUrls ==
    /\ pc = "urls"
    /\ now \in EnumNows
    /\ tz \in TimeZones
    /\ args \in [id : PlayerIds, months : 1..MaxEnumMonths]
    /\ perfIn = <<0, 0, 1>>
    /\ Idle

NextUrls == GetRatingUrls \/ GetRatingUrlsAgain

SpecUrls == InitUrls /\ [][NextUrls]_vars

-----------------------------------------------------------------------------
(* Direct calls of calc_performance *)

PerfAvgs == {0, 2000, 2200}

\* Points in half points up to one round more than rds, and every whole
\* score out of 100 rounds, so that each key of the table is asked for.
PerfInputs ==
    {<<a, 50 * p, r>> : a \in PerfAvgs, p \in 0..(2 * MaxRds + 2),
                        r \in 0..MaxRds}
    \cup {<<a, 100 * k, 100>> : a \in PerfAvgs, k \in 0..100}

CalcPerformance ==
    /\ pc = "calc"
    /\ perfOut' = calc_performance(perfIn[1], perfIn[2], perfIn[3])
    /\ pc' = "done"
    /\ UNCHANGED <<now, tz, args, urls, urlsAgain, u, session, login, resp, i,
                   tournaments, csvFile, error, log, perfIn>>

InitPerf ==
    /\ pc = "calc"
    /\ now = <<2024, 1>>
    /\ tz = "UTC"
    /\ args \in [id : PlayerIds, months : {1}]
    /\ perfIn \in PerfInputs
    /\ Idle

NextPerf == CalcPerformance

SpecPerf == InitPerf /\ [][NextPerf]_vars

-----------------------------------------------------------------------------
(* Properties *)

Headers == resp.doc.trn_headers
Scores == resp.doc.trn_scores
Chron(period) == period[1] * 12 + period[2]
IsPrefix(s, t) == Len(s) <= Len(t) /\ SubSeq(t, 1, Len(s)) = s
Gets(k) == {j \in 1..k : log[j].kind = "get"}
Posts(k) == {j \in 1..k : log[j].kind = "post"}
PrevMonth(ym) == IF ym[2] = 1 THEN <<ym[1] - 1, 12>> ELSE <<ym[1], ym[2] - 1>>

RECURSIVE MonthsBefore(_, _)
MonthsBefore(ym, n) == IF n = 0 THEN ym ELSE MonthsBefore(PrevMonth(ym), n - 1)

\* C1: between any two report requests of a run there is a sleep, also
\* when the earlier period had no records.
C1_WaitBetweenFetches ==
    \A a, b \in DOMAIN log :
        (a < b /\ log[a].kind = "get" /\ log[b].kind = "get")
            => \E c \in (a + 1)..(b - 1) : log[c].kind = "sleep"

\* C2: a page whose records region is the no-records notice adds no record,
\* raises nothing, and the loop moves on to the next period with the records
\* of the other periods as they were.
C2_NoRecordsSkipped ==
    [][(pc = "parse" /\ resp.doc.ntables = 2
                     /\ resp.doc.records = NO_RECORDS_STRING)
          => /\ tournaments' = tournaments
             /\ error' = "none" /\ pc' # "error"
             /\ u' = u + 1]_vars

C2_Witness ==
    /\ pc = "done" /\ error = "none" /\ u = 3
    /\ resp.doc.records = NO_RECORDS_STRING
    /\ Len(csvFile.rows) > 0

\* C3: the accumulator only grows at its end; its records are in the order
\* of the enumerated periods, most recent first, and the records of the page
\* being parsed are its rows in page order.
C3_OrderInv ==
    /\ \A a, b \in DOMAIN tournaments :
          a < b => Chron(tournaments[a].RatingPeriod)
                      >= Chron(tournaments[b].RatingPeriod)
    /\ \A a \in DOMAIN tournaments :
          \E k \in 1..Len(urls) :
              /\ k <= u
              /\ tournaments[a].RatingPeriod = PeriodLabel(urls[k])
    /\ pc \in {"rows", "sleep"} =>
          /\ i - 1 <= Len(tournaments)
          /\ \A k \in 1..(i - 1) :
                tournaments[Len(tournaments) - (i - 1) + k] =
                    RowOutcome(resp.doc.period, Headers[k], Scores[k]).rec
    /\ pc = "done" => csvFile.rows = [k \in DOMAIN tournaments |->
                                         CsvRow(tournaments[k])]

C3_Ordered ==
    [](C3_OrderInv) /\ [][IsPrefix(tournaments, tournaments')]_vars

C3_Witness ==
    /\ pc = "done"
    /\ Len(tournaments) >= 3
    /\ tournaments[1].RatingPeriod = tournaments[2].RatingPeriod
    /\ tournaments[1].TournamentName # tournaments[2].TournamentName
    /\ tournaments[2].RatingPeriod # tournaments[3].RatingPeriod

\* C4: a page with different numbers of header rows and score rows ends the
\* run with the structural-mismatch error (the RuntimeError of line 130) and
\* adds no record.
C4_MismatchRaisesRuntimeError ==
    (/\ pc = "error"
     /\ resp.doc.ntables = 2 /\ resp.doc.records # NO_RECORDS_STRING
     /\ Len(Headers) # Len(Scores))
        => error = "RuntimeError"

\* C5: get_rating_urls returns months periods, the n-th being the calendar
\* month n months before the current one, with the month in 1..12 and the
\* year rolling back over January; a second call returns the same list.
C5_PeriodsWalkBack ==
    /\ pc \in {"urls again", "done"} =>
          /\ Len(urls) = args.months
          /\ \A k \in 1..Len(urls) :
                /\ urls[k].month \in 1..12
                /\ <<urls[k].year, urls[k].month>> = MonthsBefore(now, k - 1)
    /\ pc = "done" => urlsAgain = urls

\* C6: for rds > 0 and 0 <= pts <= rds, calc_performance returns avg plus the
\* table's offset for the hundredth nearest to pts / rds, the table having
\* the 101 keys 0.00 .. 1.00, so that the lookup does not miss.
C6_PerformanceInRange ==
    /\ DOMAIN PERFORMANCE_TABLE = 0..100
    /\ pc = "done" =>
          LET avg == perfIn[1]
              pts == perfIn[2]
              rds == perfIn[3]
              d(r) == 2 * r * rds - 2 * pts
          IN  /\ (rds > 0 /\ 0 <= pts /\ pts <= 100 * rds) =>
                    /\ perfOut.err = "none"
                    /\ \E r \in DOMAIN PERFORMANCE_TABLE :
                          /\ d(r) <= rds /\ -d(r) <= rds
                          /\ perfOut.perf = avg + PERFORMANCE_TABLE[r]
              /\ perfIn = <<2000, 700, 9>> => perfOut.perf = 2220
              /\ perfIn = <<2200, 450, 9>> => perfOut.perf = 2200

C6_Witness ==
    /\ pc = "done"
    /\ perfIn = <<2000, 700, 9>>
    /\ perfOut = [err |-> "none", perf |-> 2220]

\* C7: a page of N well-formed row pairs gives N records in row order, and
\* every record in the accumulator has rounds > 0 and points <= rounds.
C7_RecordsWellFormed ==
    /\ pc = "sleep" =>
          /\ Len(tournaments) = Len(Headers)
          /\ \A k \in DOMAIN tournaments :
                tournaments[k] =
                    RowOutcome(resp.doc.period, Headers[k], Scores[k]).rec
    /\ \A k \in DOMAIN tournaments :
          /\ tournaments[k].Rds > 0
          /\ tournaments[k].Pts <= 100 * tournaments[k].Rds

\* C8: a header row without exactly 4 cells or a score row without exactly
\* 8 cells ends the run: nothing is written to the file, not even the rows
\* before it, and nothing more is requested or parsed.
C8_RowShapeFailFast ==
    [][/\ (pc = "rows" /\ (Len(Headers[i]) # TRN_HEADER_CELLS
                           \/ Len(Scores[i]) # TRN_SCORE_CELLS))
            => (pc' = "error" /\ error' # "none")
       /\ pc # "error"
       /\ pc' = "error" => csvFile' = NotWritten
       /\ error' # "none" => pc' = "error"]_vars

C8_Witness ==
    /\ pc = "error" /\ error = "ValueError"
    /\ i = 2 /\ Len(Headers[i]) = TRN_HEADER_CELLS
    /\ Len(Scores[i]) # TRN_SCORE_CELLS
    /\ Len(tournaments) >= 1
    /\ u < Len(urls)
    /\ csvFile = NotWritten

\* C9: a login or report request that fails or is answered with a status
\* outside 2xx ends the run at that period: the loop is never past a request
\* whose answer was not 2xx.
C9_TransportFailureFatal ==
    /\ pc \in {"get", "parse", "rows", "sleep"} => login \in 200..299
    /\ pc \in {"parse", "rows", "sleep"} => resp.status \in 200..299

\* C10: every report request is preceded directly by the one login request
\* of its own session, no session carries two logins or two report requests,
\* the report requests are for the enumerated urls in order, and a run that
\* ends normally has made one per url.
C10_SessionPerPeriod ==
    /\ \A k \in DOMAIN log :
          log[k].kind = "get" =>
              /\ k > 1
              /\ log[k - 1].kind = "post"
              /\ log[k - 1].session = log[k].session
              /\ log[k - 1].url = LOGIN_URL
              /\ Cardinality(Posts(k)) = Cardinality(Gets(k))
              /\ Cardinality(Gets(k)) <= Len(urls)
              /\ log[k].url = urls[Cardinality(Gets(k))]
    /\ \A a, b \in DOMAIN log :
          (a < b /\ log[a].kind # "sleep" /\ log[a].kind = log[b].kind)
              => log[a].session # log[b].session
    /\ pc = "done" => Cardinality(Gets(Len(log))) = Len(urls)

C10_Witness ==
    /\ pc = "done"
    /\ Len(urls) >= 2
    /\ Cardinality(Gets(Len(log))) = Len(urls)
    /\ Cardinality(Posts(Len(log))) = Len(urls)

=============================================================================
